---- MODULE Spec2Model ----
(***************************************************************************)
(* State-machine model of the SmartHR application / interview workflow:    *)
(* apps/applications (views, serializers, models, tasks), apps/interviews  *)
(* (views, serializers) and the job operations of apps/jobs that the       *)
(* application workflow depends on.                                        *)
(*                                                                         *)
(* The database tables are the variables jobs, applications,               *)
(* status_history and interviews.  A submit request is executed in three   *)
(* steps (validation, insert, counter write + task dispatch) because the   *)
(* project runs in Django's default autocommit mode: other requests may    *)
(* run between the steps.  The status update is modelled both as a single  *)
(* step and as the three steps read + validate, save, history row; the     *)
(* other views are single steps.                                           *)
(***************************************************************************)
EXTENDS Integers, Sequences, FiniteSets, TLC

\* ---------------------------------------------------------------- bounds
MaxApps == 2        \* rows of the applications table
MaxHistory == 2     \* rows of the application_status_history table
MaxInterviews == 1  \* rows of the interviews table
MaxRequests == 2    \* submit requests in flight at the same time
MaxUploads == 1     \* video-analysis tasks queued or running at the same time
MaxClock == 3       \* the last clock value a video-analysis task stamps
MaxUnranked == 3    \* applications stored after the first nine of a shortlist

\* ----------------------------------------------------------------- users
Candidates == {"c1", "c2"}
Employers == {"e1", "e2"}
Users == Candidates \cup Employers

\* apps/common/permissions.py IsEmployer: request.user.role == 'employer'
IsEmployer(u) == u \in Employers

\* ------------------------------------------------------------------ jobs
JobIds == {"j1"}
JOB_STATUS_CHOICES == {"draft", "open", "closed", "filled"}

\* ---------------------------------------------------------- applications
STATUS_CHOICES == {"submitted", "under_review", "shortlisted",
                   "interview_scheduled", "interviewed", "offer_sent",
                   "accepted", "rejected", "withdrawn"}

\* status strings a request body can carry: the declared ones and two that
\* are not declared for applications
RequestStatuses == STATUS_CHOICES \cup {"no_show"}

\* the optional comment and rejection_reason of a status-update request
Comments == {""}
Reasons == {""}

NULL == 0           \* a null timestamp / null foreign key
NoScore == -1       \* ai_match_score IS NULL

VARIABLES
    jobs,            \* job id -> [employer, status, applications_count]
    applications,    \* sequence of application rows; the id is the index
    status_history,  \* sequence of status-history rows, in insertion order
    interviews,      \* sequence of interview rows; the id is the index
    task_queue,      \* application ids handed to calculate_ai_match_score.delay
    scoring,         \* running scoring tasks: [app, row], row as the task read it
    submits,         \* submit requests in flight: slot -> request state
    now,             \* the value the next timezone.now() returns
    accepted,        \* per application: the accepted status-update, bulk
                     \* status-update and withdraw operations performed on it
    response,        \* the response sent by the last step (NoResponse: none)
    video_queue,     \* interview ids handed to analyze_interview_video.delay
    analyzing,       \* running video tasks: [interview, row], row as read
    updates          \* status-update requests in flight: slot -> request state

vars == <<jobs, applications, status_history, interviews, task_queue,
          scoring, submits, now, accepted, response, video_queue, analyzing,
          updates>>

AppIds == 1..Len(applications)
\* the application ids a request can name: the stored ones and one more
RequestIds == 1..(Len(applications) + 1)
Slots == 1..MaxRequests

\* ------------------------------------------------------------- responses
\* op: the operation, code: the HTTP status, error: the error reported,
\* count: the updated_count of a bulk update
NoResponse == [op |-> "", code |-> 0, error |-> "", count |-> 0]

IdleSubmit == [pc |-> "idle", user |-> "", job_id |-> "", count |-> 0,
               app |-> 0]

\* -------------------------------------------------------------- queries
\* Application.objects.filter(user=user, job_id=job_id).exists()
ApplicationExists(user, job_id) ==
    \E a \in AppIds : applications[a].user = user
                      /\ applications[a].job = job_id

AppsOfJob(j) == {a \in AppIds : applications[a].job = j}

\* permission_classes = [IsAuthenticated, IsEmployer]: the request of a user
\* who is no employer is answered 403 before the view runs
EmployerOnly == {"status_update", "bulk_update", "shortlist",
                 "interview_create", "interview_update",
                 "interview_reschedule", "job_publish", "job_close"}

PermissionDenied(u, op) ==
    /\ ~IsEmployer(u)
    /\ response' = [NoResponse EXCEPT !.op = op, !.code = 403,
                      !.error = "Forbidden"]
    /\ UNCHANGED <<video_queue, analyzing, updates>>
    /\ UNCHANGED <<jobs, applications, status_history, interviews,
                   task_queue, scoring, submits, now, accepted>>

\* ------------------------------------------------------------ job views
\* JobPublishView.post
JobPublish(u, j) ==
    /\ IsEmployer(u)
    /\ jobs[j].employer = u
    /\ IF jobs[j].status # "draft"
       THEN /\ response' = [NoResponse EXCEPT !.op = "job_publish", !.code = 400,
                              !.error = "NotDraft"]
            /\ UNCHANGED jobs
       ELSE /\ jobs' = [jobs EXCEPT ![j].status = "open"]
            /\ response' = [NoResponse EXCEPT !.op = "job_publish", !.code = 200]
    /\ UNCHANGED <<video_queue, analyzing, updates>>
    /\ UNCHANGED <<applications, status_history, interviews, task_queue,
                   scoring, submits, now, accepted>>

\* JobCloseView.post
JobClose(u, j) ==
    /\ IsEmployer(u)
    /\ jobs[j].employer = u
    /\ jobs' = [jobs EXCEPT ![j].status = "closed"]
    /\ response' = [NoResponse EXCEPT !.op = "job_close", !.code = 200]
    /\ UNCHANGED <<video_queue, analyzing, updates>>
    /\ UNCHANGED <<applications, status_history, interviews, task_queue,
                   scoring, submits, now, accepted>>

\* ------------------------------------------------------- submit request
\* ai_analysis = models.JSONField(default=dict)
EmptyAnalysis ==
    [matching_skills |-> {}, missing_skills |-> {}, experience_match |-> ""]

\* Application(...) as serializer.save(user=, job=) inserts it: the model
\* defaults of status, ai_match_score, ai_analysis, ai_analyzed_at,
\* rejection_reason and reviewed_at
NewApplication(user, job_id) ==
    [job |-> job_id, user |-> user, status |-> "submitted",
     ai_match_score |-> NoScore, ai_analysis |-> EmptyAnalysis,
     ai_analyzed_at |-> NULL, rejection_reason |-> "", reviewed_at |-> NULL]

\* the pre-check counting only the applications that are still active
AlreadyApplied_ActiveOnly(user, job_id) ==
    \E a \in AppIds : /\ applications[a].user = user
                      /\ applications[a].job = job_id
                      /\ applications[a].status \notin {"rejected", "withdrawn"}

\* ApplicationCreateSerializer.validate: the exists() pre-check
AlreadyApplied(user, job_id) == ApplicationExists(user, job_id)

\* a table without the uniqueness constraint
UniqueTogetherViolated_NoConstraint(user, job_id) == FALSE

\* Application.Meta.unique_together = [['job', 'user']]: the INSERT raises
\* IntegrityError when a row with the same (job, user) is stored
UniqueTogetherViolated(user, job_id) == ApplicationExists(user, job_id)

\* ApplicationCreateSerializer.is_valid(): validate_job_id, then validate
\* (validate runs only when no field validator failed)
SubmitValidate(r, u, j) ==
    /\ submits[r].pc = "idle"
    /\ LET fail(e) ==
               /\ response' = [NoResponse EXCEPT !.op = "submit", !.code = 400, !.error = e]
               /\ UNCHANGED submits
       IN  IF jobs[j].status # "open" THEN fail("JobNotOpen")
           ELSE IF AlreadyApplied(u, j) THEN fail("DuplicateApplication")
           ELSE /\ submits' = [submits EXCEPT ![r] =
                                  [IdleSubmit EXCEPT !.pc = "validated",
                                                     !.user = u, !.job_id = j]]
                /\ response' = NoResponse
    /\ UNCHANGED <<video_queue, analyzing, updates>>
    /\ UNCHANGED <<jobs, applications, status_history, interviews,
                   task_queue, scoring, now, accepted>>

\* perform_create lines 37-43: job = get_object_or_404(Job, id=job_id), then
\* serializer.save(user=, job=): the INSERT
SubmitSave(r) ==
    /\ submits[r].pc = "validated"
    /\ LET u == submits[r].user
           j == submits[r].job_id
       IN  IF UniqueTogetherViolated(u, j)
           THEN /\ submits' = [submits EXCEPT ![r] = IdleSubmit]
                /\ response' = [NoResponse EXCEPT !.op = "submit", !.code = 500,
                                  !.error = "IntegrityError"]
                /\ UNCHANGED <<applications, accepted>>
           ELSE /\ Len(applications) < MaxApps
                /\ applications' = Append(applications, NewApplication(u, j))
                /\ accepted' = Append(accepted, 0)
                /\ submits' = [submits EXCEPT ![r].pc = "saved",
                                 ![r].count = jobs[j].applications_count,
                                 ![r].app = Len(applications) + 1]
                /\ response' = NoResponse
    /\ UNCHANGED <<video_queue, analyzing, updates>>
    /\ UNCHANGED <<jobs, status_history, interviews, task_queue, scoring, now>>

\* a submit that dispatches no task
SubmitFinish_NoTask(r) ==
    /\ submits[r].pc = "saved"
    /\ jobs' = [jobs EXCEPT ![submits[r].job_id].applications_count =
                                submits[r].count + 1]
    /\ submits' = [submits EXCEPT ![r] = IdleSubmit]
    /\ response' = [NoResponse EXCEPT !.op = "submit", !.code = 201]
    /\ UNCHANGED <<applications, status_history, interviews, task_queue,
                   scoring, now, accepted, video_queue, analyzing, updates>>

\* perform_create lines 45-52: job.applications_count += 1 on the job object
\* read before the INSERT, job.save(update_fields=['applications_count']),
\* calculate_ai_match_score.delay(application.id), 201
SubmitFinish(r) ==
    /\ submits[r].pc = "saved"
    /\ jobs' = [jobs EXCEPT ![submits[r].job_id].applications_count =
                                submits[r].count + 1]
    /\ task_queue' = Append(task_queue, submits[r].app)
    /\ submits' = [submits EXCEPT ![r] = IdleSubmit]
    /\ response' = [NoResponse EXCEPT !.op = "submit", !.code = 201]
    /\ UNCHANGED <<video_queue, analyzing, updates>>
    /\ UNCHANGED <<applications, status_history, interviews, scoring, now,
                   accepted>>

\* -------------------------------------------------- application views
\* ApplicationStatusUpdateSerializer.validate_status: valid_transitions
\* (statuses without an entry: valid_transitions.get(current_status, []))
valid_transitions(current_status) ==
    CASE current_status = "submitted" -> {"under_review", "rejected"}
      [] current_status = "under_review" -> {"shortlisted", "rejected"}
      [] current_status = "shortlisted" -> {"interview_scheduled", "rejected"}
      [] current_status = "interview_scheduled" ->
             {"interviewed", "no_show", "rejected"}
      [] current_status = "interviewed" -> {"offer_sent", "rejected"}
      [] current_status = "offer_sent" -> {"accepted", "rejected"}
      [] OTHER -> {}

\* validate_status lines 109-117: the transition is refused
TransitionRefused(current_status, value) ==
    value \notin valid_transitions(current_status) /\ value # current_status

\* ApplicationStatusHistory.objects.create(...)
HistoryRow(pk, old_status, new_status, user, comment) ==
    [application |-> pk, old_status |-> old_status, new_status |-> new_status,
     changed_by |-> user, comment |-> comment]

\* a lookup by primary key only, without the employer of the job
VisibleToEmployer_AnyEmployer(pk, u) == pk \in AppIds

\* get_object_or_404(Application, pk=pk, job__employer=request.user)
VisibleToEmployer(pk, u) ==
    pk \in AppIds /\ jobs[applications[pk].job].employer = u

\* get_object_or_404(Application, pk=pk, user=request.user)
OwnedByCandidate(pk, u) == pk \in AppIds /\ applications[pk].user = u

\* a save that leaves the stored status alone
UpdatedApplication_KeepStatus(app, new_status, reason) == app

\* ApplicationStatusUpdateView.patch lines 210-218: the row that is saved
UpdatedApplication(app, new_status, reason) ==
    [app EXCEPT !.status = new_status,
                !.reviewed_at =
                    IF new_status = "under_review" /\ app.reviewed_at = NULL
                    THEN now ELSE app.reviewed_at,
                !.rejection_reason =
                    IF new_status = "rejected" THEN reason
                    ELSE app.rejection_reason]

\* a status update that creates no history row
HistoryAfterUpdate_NoRow(pk, old_status, new_status, u, comment) ==
    status_history

\* ApplicationStatusUpdateView.patch lines 220-227
HistoryAfterUpdate(pk, old_status, new_status, u, comment) ==
    Append(status_history, HistoryRow(pk, old_status, new_status, u, comment))

\* ApplicationStatusUpdateView.patch
ApplicationStatusUpdate(u, pk, value, comment, reason) ==
    /\ IsEmployer(u)
    /\ LET fail(c, e) ==
               /\ response' = [NoResponse EXCEPT !.op = "status_update",
                                 !.code = c, !.error = e]
               /\ UNCHANGED <<applications, status_history, now, accepted>>
       IN  IF ~VisibleToEmployer(pk, u) THEN fail(404, "NotFound")
           ELSE IF value \notin STATUS_CHOICES THEN fail(400, "InvalidChoice")
           ELSE IF TransitionRefused(applications[pk].status, value)
                THEN fail(400, "InvalidTransition")
           ELSE /\ Len(status_history) < MaxHistory
                /\ applications' =
                       [applications EXCEPT ![pk] =
                            UpdatedApplication(applications[pk], value, reason)]
                /\ now' = IF applications'[pk].reviewed_at
                              # applications[pk].reviewed_at
                          THEN now + 1 ELSE now
                /\ status_history' =
                       HistoryAfterUpdate(pk, applications[pk].status, value,
                                          u, comment)
                /\ accepted' = [accepted EXCEPT ![pk] = @ + 1]
                /\ response' = [NoResponse EXCEPT !.op = "status_update",
                                  !.code = 200]
    /\ UNCHANGED <<video_queue, analyzing, updates>>
    /\ UNCHANGED <<jobs, interviews, task_queue, scoring, submits>>

\* ------------------------------------- the status update, step by step
\* The view reads the application, validates against the copy it read,
\* saves that copy and then inserts the history row; every statement
\* commits on its own, so other requests and tasks run in between.

\* no status-update request in the slot; row: the application as read
IdleUpdate == [pc |-> "idle", user |-> "", app |-> 0,
               row |-> NewApplication("", ""), old_status |-> "",
               value |-> "", comment |-> "", reason |-> ""]

\* the status-update requests that passed validation and have not yet
\* inserted their history row
UpdatesInFlight == {r \in Slots : updates[r].pc # "idle"}

\* ApplicationStatusUpdateView.patch lines 194-204: get_object_or_404 and
\* serializer.is_valid(raise_exception=True)
StatusUpdateRead(r, u, pk, value, comment, reason) ==
    /\ IsEmployer(u)
    /\ updates[r].pc = "idle"
    /\ LET fail(c, e) ==
               /\ response' = [NoResponse EXCEPT !.op = "status_update",
                                 !.code = c, !.error = e]
               /\ UNCHANGED <<updates, accepted>>
       IN  IF ~VisibleToEmployer(pk, u) THEN fail(404, "NotFound")
           ELSE IF value \notin STATUS_CHOICES THEN fail(400, "InvalidChoice")
           ELSE IF TransitionRefused(applications[pk].status, value)
                THEN fail(400, "InvalidTransition")
           ELSE /\ Len(status_history) + Cardinality(UpdatesInFlight)
                       < MaxHistory
                /\ updates' = [updates EXCEPT ![r] =
                                  [pc |-> "validated", user |-> u, app |-> pk,
                                   row |-> applications[pk],
                                   old_status |-> applications[pk].status,
                                   value |-> value, comment |-> comment,
                                   reason |-> reason]]
                /\ accepted' = [accepted EXCEPT ![pk] = @ + 1]
                /\ response' = NoResponse
    /\ UNCHANGED <<jobs, applications, status_history, interviews,
                   task_queue, scoring, submits, now, video_queue, analyzing>>

\* ApplicationStatusUpdateView.patch lines 206-218: the fields are set on
\* the copy read before and application.save() writes the whole row
StatusUpdateSave(r) ==
    /\ updates[r].pc = "validated"
    /\ LET t == updates[r]
           saved == UpdatedApplication(t.row, t.value, t.reason)
       IN  /\ applications' = [applications EXCEPT ![t.app] = saved]
           /\ now' = IF saved.reviewed_at # t.row.reviewed_at
                     THEN now + 1 ELSE now
           /\ updates' = [updates EXCEPT ![r].pc = "saved", ![r].row = saved]
    /\ response' = NoResponse
    /\ UNCHANGED <<jobs, status_history, interviews, task_queue, scoring,
                   submits, accepted, video_queue, analyzing>>

\* ApplicationStatusUpdateView.patch lines 220-232: the history row with
\* the old_status taken from the copy read before, and the response
StatusUpdateLog(r) ==
    /\ updates[r].pc = "saved"
    /\ LET t == updates[r]
       IN  status_history' =
               HistoryAfterUpdate(t.app, t.old_status, t.value, t.user,
                                  t.comment)
    /\ updates' = [updates EXCEPT ![r] = IdleUpdate]
    /\ response' = [NoResponse EXCEPT !.op = "status_update", !.code = 200]
    /\ UNCHANGED <<jobs, applications, interviews, task_queue, scoring,
                   submits, now, accepted, video_queue, analyzing>>

\* the check without 'withdrawn': a second withdrawal is accepted
WithdrawRefused_TwoStates(status) == status \in {"accepted", "rejected"}

\* ApplicationWithdrawView.post line 120
WithdrawRefused(status) == status \in {"accepted", "rejected", "withdrawn"}

\* ApplicationWithdrawView.post lines 130-137
HistoryAfterWithdraw(pk, old_status, u) ==
    Append(status_history,
           HistoryRow(pk, old_status, "withdrawn", u,
                      "Application withdrawn by candidate"))

\* a withdrawal that records the refused attempt in the history
ApplicationWithdraw_LogsRefusal(u, pk) ==
    /\ OwnedByCandidate(pk, u)
    /\ WithdrawRefused(applications[pk].status)
    /\ Len(status_history) < MaxHistory
    /\ status_history' =
           HistoryAfterWithdraw(pk, applications[pk].status, u)
    /\ response' = [NoResponse EXCEPT !.op = "withdraw", !.code = 400,
                      !.error = "CannotWithdraw"]
    /\ UNCHANGED <<jobs, applications, interviews, task_queue, scoring,
                   submits, now, accepted, video_queue, analyzing, updates>>

\* ApplicationWithdrawView.post
ApplicationWithdraw(u, pk) ==
    /\ LET fail(c, e) ==
               /\ response' = [NoResponse EXCEPT !.op = "withdraw", !.code = c,
                                 !.error = e]
               /\ UNCHANGED <<applications, status_history, accepted>>
       IN  IF ~OwnedByCandidate(pk, u) THEN fail(404, "NotFound")
           ELSE IF WithdrawRefused(applications[pk].status)
                THEN fail(400, "CannotWithdraw")
           ELSE /\ Len(status_history) < MaxHistory
                /\ applications' =
                       [applications EXCEPT ![pk].status = "withdrawn"]
                /\ status_history' =
                       HistoryAfterWithdraw(pk, applications[pk].status, u)
                /\ accepted' = [accepted EXCEPT ![pk] = @ + 1]
                /\ response' = [NoResponse EXCEPT !.op = "withdraw", !.code = 200]
    /\ UNCHANGED <<video_queue, analyzing, updates>>
    /\ UNCHANGED <<jobs, interviews, task_queue, scoring, submits, now>>

\* Application.Meta.ordering = ['-submitted_at']: the queryset of the bulk
\* update yields the applications latest first
RECURSIVE LatestFirst(_)
LatestFirst(ids) ==
    IF ids = {} THEN <<>>
    ELSE LET m == CHOOSE x \in ids : \A y \in ids : y <= x
         IN  <<m>> \o LatestFirst(ids \ {m})

\* BulkStatusUpdateView.post lines 341-345
BulkQueryset(u, application_ids) ==
    {a \in application_ids : VisibleToEmployer(a, u)}

\* BulkStatusUpdateView.post lines 348-351: the status stored for a row of
\* the queryset
BulkStoredStatus(old_status, new_status) == new_status

\* a bulk update that creates no history rows
BulkHistory_NoRows(history, order, new_status, u, comment) == history

\* BulkStatusUpdateView.post lines 353-359, for the rows in order
RECURSIVE BulkHistory(_, _, _, _, _)
BulkHistory(history, order, new_status, u, comment) ==
    IF order = <<>> THEN history
    ELSE BulkHistory(
             Append(history,
                    HistoryRow(Head(order), applications[Head(order)].status,
                               BulkStoredStatus(
                                   applications[Head(order)].status,
                                   new_status),
                               u, comment)),
             Tail(order), new_status, u, comment)

\* BulkStatusUpdateView.post
BulkStatusUpdate(u, application_ids, new_status, comment) ==
    /\ IsEmployer(u)
    /\ LET fail(c, e) ==
               /\ response' = [NoResponse EXCEPT !.op = "bulk_update", !.code = c, !.error = e]
               /\ UNCHANGED <<applications, status_history, accepted>>
           qs == BulkQueryset(u, application_ids)
       IN  IF application_ids = {} \/ new_status = ""
                THEN fail(400, "Required")
           ELSE /\ Len(status_history) + Cardinality(qs) <= MaxHistory
                /\ applications' =
                       [a \in AppIds |->
                           IF a \in qs
                           THEN [applications[a] EXCEPT !.status =
                                    BulkStoredStatus(applications[a].status,
                                                     new_status)]
                           ELSE applications[a]]
                /\ status_history' =
                       BulkHistory(status_history, LatestFirst(qs),
                                   new_status, u, comment)
                /\ accepted' = [a \in AppIds |->
                                   IF a \in qs THEN accepted[a] + 1
                                   ELSE accepted[a]]
                /\ response' = [NoResponse EXCEPT !.op = "bulk_update", !.code = 200,
                                  !.count = Cardinality(qs)]
    /\ UNCHANGED <<video_queue, analyzing, updates>>
    /\ UNCHANGED <<jobs, interviews, task_queue, scoring, submits, now>>

\* ------------------------------------------------------------ shortlist
\* ShortlistCandidatesView.get: [:10]
ShortlistLimit == 10

\* the order in which the database returns rows of equal ai_match_score
\* is not specified: oldest first or latest first
TieOrders == {"oldest", "latest"}

\* .order_by('-ai_match_score') over a set of application ids
RECURSIVE ByScoreDescending(_, _)
ByScoreDescending(ids, ties) ==
    IF ids = {} THEN <<>>
    ELSE LET best == {a \in ids :
                         \A b \in ids : applications[b].ai_match_score
                                            <= applications[a].ai_match_score}
             m == IF ties = "oldest"
                  THEN CHOOSE a \in best : \A b \in best : a <= b
                  ELSE CHOOSE a \in best : \A b \in best : b <= a
         IN  <<m>> \o ByScoreDescending(ids \ {m}, ties)

\* the query without the slice
ShortlistQuery_Unlimited(job_id, ties) ==
    ByScoreDescending({a \in AppIds :
                          /\ applications[a].job = job_id
                          /\ applications[a].ai_match_score # NoScore},
                      ties)

\* ShortlistCandidatesView.get lines 304-307: filter(job=job,
\* ai_match_score__isnull=False).order_by('-ai_match_score')[:10]
ShortlistQuery(job_id, ties) ==
    LET ordered ==
            ByScoreDescending({a \in AppIds :
                                  /\ applications[a].job = job_id
                                  /\ applications[a].ai_match_score # NoScore},
                              ties)
    IN  SubSeq(ordered, 1,
               IF Len(ordered) < ShortlistLimit THEN Len(ordered)
               ELSE ShortlistLimit)

\* ShortlistCandidatesView.get
ShortlistCandidates(u, job_id, ties) ==
    /\ IsEmployer(u)
    /\ IF job_id \notin DOMAIN jobs \/ jobs[job_id].employer # u
       THEN response' = [NoResponse EXCEPT !.op = "shortlist", !.code = 404,
                           !.error = "NotFound"]
       ELSE response' = [NoResponse EXCEPT !.op = "shortlist", !.code = 200,
                           !.count = Len(ShortlistQuery(job_id, ties))]
    /\ UNCHANGED <<jobs, applications, status_history, interviews,
                   task_queue, scoring, submits, now, accepted, video_queue,
                   analyzing, updates>>

\* ----------------------------------------------------- interview views
\* Interview.STATUS_CHOICES
INTERVIEW_STATUS_CHOICES == {"scheduled", "in_progress", "completed",
                             "cancelled", "rescheduled", "no_show"}

InterviewIds == 1..Len(interviews)
RequestInterviewIds == 1..(Len(interviews) + 1)

\* Interview.objects.filter(application__job__employer=user)
InterviewOfEmployer(pk, u) ==
    pk \in InterviewIds
    /\ jobs[applications[interviews[pk].application].job].employer = u

\* get_object_or_404(Interview, pk=pk, application__user=user)
InterviewOfCandidate(pk, u) ==
    pk \in InterviewIds /\ applications[interviews[pk].application].user = u

\* a validator without the ownership check
OwnsJobOf_Anyone(application_id, u) == TRUE

\* InterviewCreateSerializer.validate_application_id lines 64-67
OwnsJobOf(application_id, u) ==
    jobs[applications[application_id].job].employer = u

\* serializer.save(application=, interviewer=): status defaults to scheduled
NewInterview(application_id, u, scheduled_at) ==
    [application |-> application_id, status |-> "scheduled",
     scheduled_at |-> scheduled_at, completed_at |-> NULL, interviewer |-> u,
     video_file |-> FALSE, ai_score |-> NoScore, ai_analyzed_at |-> NULL]

\* a cascade that respects the terminal statuses
ApplicationAfterInterviewCreate_KeepTerminal(app) ==
    IF app.status \notin {"interview_scheduled", "accepted", "rejected",
                          "withdrawn"}
    THEN [app EXCEPT !.status = "interview_scheduled"]
    ELSE app

\* InterviewCreateView.perform_create lines 96-99: the application row after
\* the interview is created (written only when the status differs)
ApplicationAfterInterviewCreate(app) ==
    IF app.status # "interview_scheduled"
    THEN [app EXCEPT !.status = "interview_scheduled"]
    ELSE app

\* InterviewCreateView: validate_application_id, then perform_create
InterviewCreate(u, application_id, scheduled_at) ==
    /\ IsEmployer(u)
    /\ LET fail(e) ==
               /\ response' = [NoResponse EXCEPT !.op = "interview_create",
                                 !.code = 400, !.error = e]
               /\ UNCHANGED <<applications, interviews>>
       IN  IF application_id \notin AppIds THEN fail("ApplicationNotFound")
           ELSE IF ~OwnsJobOf(application_id, u) THEN fail("NoPermission")
           ELSE /\ Len(interviews) < MaxInterviews
                /\ interviews' =
                       Append(interviews,
                              NewInterview(application_id, u, scheduled_at))
                /\ applications' =
                       [applications EXCEPT ![application_id] =
                            ApplicationAfterInterviewCreate(@)]
                /\ response' = [NoResponse EXCEPT !.op = "interview_create",
                                  !.code = 201]
    /\ UNCHANGED <<video_queue, analyzing, updates>>
    /\ UNCHANGED <<jobs, status_history, task_queue, scoring, submits, now,
                   accepted>>

\* InterviewUpdateView.perform_update line 151
StampsCompleted(interview) ==
    interview.status = "completed" /\ interview.completed_at = NULL

\* InterviewUpdateView.perform_update lines 155-158: the application row
\* after an update that stamps completed_at
ApplicationAfterInterviewCompleted(app) ==
    IF app.status = "interview_scheduled"
    THEN [app EXCEPT !.status = "interviewed"]
    ELSE app

\* InterviewUpdateView (serializer.save(), then perform_update's cascade);
\* a request without a status is one that repeats the stored status
InterviewUpdate(u, pk, status) ==
    /\ IsEmployer(u)
    /\ IF ~InterviewOfEmployer(pk, u)
       THEN /\ response' = [NoResponse EXCEPT !.op = "interview_update", !.code = 404,
                              !.error = "NotFound"]
            /\ UNCHANGED <<applications, interviews, now>>
       ELSE LET saved == [interviews[pk] EXCEPT !.status = status]
                a == saved.application
            IN  /\ IF StampsCompleted(saved)
                   THEN /\ interviews' =
                               [interviews EXCEPT ![pk] =
                                    [saved EXCEPT !.completed_at = now]]
                        /\ now' = now + 1
                        /\ applications' =
                               [applications EXCEPT ![a] =
                                    ApplicationAfterInterviewCompleted(@)]
                   ELSE /\ interviews' = [interviews EXCEPT ![pk] = saved]
                        /\ UNCHANGED <<applications, now>>
                /\ response' = [NoResponse EXCEPT !.op = "interview_update", !.code = 200]
    /\ UNCHANGED <<video_queue, analyzing, updates>>
    /\ UNCHANGED <<jobs, status_history, task_queue, scoring, submits,
                   accepted>>

\* the check without 'completed'
CancelRefused_OnlyCancelled(status) == status = "cancelled"

\* InterviewCancelView.post line 188
CancelRefused(status) == status \in {"completed", "cancelled"}

\* InterviewCancelView.post
InterviewCancel(u, pk) ==
    /\ LET fail(c, e) ==
               /\ response' = [NoResponse EXCEPT !.op = "interview_cancel", !.code = c,
                                 !.error = e]
               /\ UNCHANGED interviews
           found == IF IsEmployer(u) THEN InterviewOfEmployer(pk, u)
                    ELSE InterviewOfCandidate(pk, u)
       IN  IF ~found THEN fail(404, "NotFound")
           ELSE IF CancelRefused(interviews[pk].status)
                THEN fail(400, "CannotCancel")
           ELSE /\ interviews' = [interviews EXCEPT ![pk].status = "cancelled"]
                /\ response' = [NoResponse EXCEPT !.op = "interview_cancel", !.code = 200]
    /\ UNCHANGED <<video_queue, analyzing, updates>>
    /\ UNCHANGED <<jobs, applications, status_history, task_queue, scoring,
                   submits, now, accepted>>

\* InterviewRescheduleView.post (new_time = 0: no scheduled_at in the body)
InterviewReschedule(u, pk, new_time) ==
    /\ IsEmployer(u)
    /\ LET fail(c, e) ==
               /\ response' = [NoResponse EXCEPT !.op = "interview_reschedule", !.code = c,
                                 !.error = e]
               /\ UNCHANGED interviews
       IN  IF ~InterviewOfEmployer(pk, u) THEN fail(404, "NotFound")
           ELSE IF new_time = 0 THEN fail(400, "Required")
           ELSE /\ interviews' = [interviews EXCEPT
                                    ![pk].scheduled_at = new_time,
                                    ![pk].status = "rescheduled"]
                /\ response' = [NoResponse EXCEPT
                                  !.op = "interview_reschedule", !.code = 200]
    /\ UNCHANGED <<video_queue, analyzing, updates>>
    /\ UNCHANGED <<jobs, applications, status_history, task_queue, scoring,
                   submits, now, accepted>>

\* ------------------------------------------------- video analysis task
\* AIService.analyze_interview_video: min(round(score, 2), 100) of a random
\* review, in hundredths of a point; the lowest and the highest outcome
VideoScores == {6350, 9440}

\* the interview the user of a cancel or upload request may address
InterviewVisibleTo(pk, u) ==
    IF IsEmployer(u) THEN InterviewOfEmployer(pk, u)
    ELSE InterviewOfCandidate(pk, u)

\* VideoUploadView.post, with a video file the serializer accepts
VideoUpload(u, pk) ==
    /\ IF ~InterviewVisibleTo(pk, u)
       THEN /\ response' = [NoResponse EXCEPT !.op = "video_upload",
                              !.code = 404, !.error = "NotFound"]
            /\ UNCHANGED <<interviews, video_queue>>
       ELSE /\ Len(video_queue) + Cardinality(analyzing) < MaxUploads
            /\ interviews' = [interviews EXCEPT ![pk].video_file = TRUE]
            /\ video_queue' = Append(video_queue, pk)
            /\ response' = [NoResponse EXCEPT !.op = "video_upload",
                              !.code = 200]
    /\ UNCHANGED <<jobs, applications, status_history, task_queue, scoring,
                   submits, now, accepted, analyzing, updates>>

\* analyze_interview_video lines 12-15: a worker takes a task from the
\* queue and reads the interview; without a video file the task ends
VideoTaskRead(i) ==
    /\ i \in 1..Len(video_queue)
    /\ video_queue[i] \in InterviewIds
    /\ video_queue' = SubSeq(video_queue, 1, i - 1)
                      \o SubSeq(video_queue, i + 1, Len(video_queue))
    /\ analyzing' =
           IF interviews[video_queue[i]].video_file
           THEN analyzing \cup {[interview |-> video_queue[i],
                                 row |-> interviews[video_queue[i]]]}
           ELSE analyzing
    /\ response' = NoResponse
    /\ UNCHANGED <<jobs, applications, status_history, interviews,
                   task_queue, scoring, submits, now, accepted, updates>>

\* analyze_interview_video lines 23-26: the row the task saves, built from
\* the row it read
AnalyzedInterview(row, score) ==
    [row EXCEPT !.ai_score = score, !.ai_analyzed_at = now]

\* analyze_interview_video lines 17-37: the rest of the task; ok = FALSE:
\* an exception was raised and swallowed
VideoTaskSave(t, score, ok) ==
    /\ t \in analyzing
    /\ analyzing' = analyzing \ {t}
    /\ IF ok
       THEN /\ now < MaxClock
            /\ interviews' = [interviews EXCEPT ![t.interview] =
                                  AnalyzedInterview(t.row, score)]
            /\ now' = now + 1
            /\ response' = [NoResponse EXCEPT !.op = "video_task"]
       ELSE /\ response' = [NoResponse EXCEPT !.op = "video_task",
                              !.error = "Exception"]
            /\ UNCHANGED <<interviews, now>>
    /\ UNCHANGED <<jobs, applications, status_history, task_queue, scoring,
                   submits, accepted, video_queue, updates>>

\* ---------------------------------------------------------- scoring task
\* the profile attributes and job requirements the task hands to AIService
CandidateData(user) ==
    IF user = "c1"
    THEN [skills |-> {"Go", "SQL"}, experience |-> 2, education |-> TRUE,
          certifications |-> TRUE]
    ELSE [skills |-> {"Go"}, experience |-> 0, education |-> FALSE,
          certifications |-> FALSE]

JobRequirements(job_id) ==
    [required_skills |-> {"Go", "SQL"}, preferred_skills |-> {"Go"},
     experience_years_min |-> 1]

\* n / d rounded to the nearest integer
RoundDiv(n, d) == (2 * n + d) \div (2 * d)

\* the score without the upper limit
ClampScore_Unclamped(score) == score

\* min(round(score, 2), 100), the score in hundredths of a point
ClampScore(score) == IF score > 10000 THEN 10000 ELSE score

\* AIService.calculate_match_score, the score in hundredths of a point
calculate_match_score(candidate_data, job_requirements) ==
    LET candidate_skills == candidate_data.skills
        required_skills == job_requirements.required_skills
        preferred_skills == job_requirements.preferred_skills
        matching_required == candidate_skills \cap required_skills
        matching_preferred == candidate_skills \cap preferred_skills
        meets == candidate_data.experience
                     >= job_requirements.experience_years_min
        score ==
            (IF required_skills # {}
             THEN RoundDiv(6000 * Cardinality(matching_required),
                           Cardinality(required_skills))
             ELSE 0)
            + (IF preferred_skills # {}
               THEN RoundDiv(2000 * Cardinality(matching_preferred),
                             Cardinality(preferred_skills))
               ELSE 0)
            + (IF meets THEN 2000 ELSE 0)
            + (IF candidate_data.education THEN 1000 ELSE 0)
            + (IF candidate_data.certifications THEN 500 ELSE 0)
    IN  [score |-> ClampScore(score),
         analysis |->
             [matching_skills |->
                  IF required_skills # {} THEN matching_required ELSE {},
              missing_skills |->
                  IF required_skills # {}
                  THEN required_skills \ matching_required ELSE {},
              experience_match |-> IF meets THEN "meets" ELSE "below"]]

\* calculate_ai_match_score lines 45-49: the row the task saves, built from
\* the row it read
ScoredApplication(row, match_result) ==
    [row EXCEPT !.ai_match_score = match_result.score,
                !.ai_analysis = match_result.analysis,
                !.ai_analyzed_at = now]

\* calculate_ai_match_score lines 12-14: a worker takes a task from the
\* queue and reads the application
ScoreTaskRead(i) ==
    /\ i \in 1..Len(task_queue)
    /\ task_queue[i] \in AppIds
    /\ task_queue' = SubSeq(task_queue, 1, i - 1)
                     \o SubSeq(task_queue, i + 1, Len(task_queue))
    /\ scoring' = scoring \cup {[app |-> task_queue[i],
                                 row |-> applications[task_queue[i]]]}
    /\ response' = NoResponse
    /\ UNCHANGED <<video_queue, analyzing, updates>>
    /\ UNCHANGED <<jobs, applications, status_history, interviews, submits,
                   now, accepted>>

\* a task that is put back on the queue when it fails
ScoreTaskSave_RetryOnFailure(t, ok) ==
    /\ t \in scoring
    /\ ~ok
    /\ scoring' = scoring \ {t}
    /\ task_queue' = Append(task_queue, t.app)
    /\ response' = [NoResponse EXCEPT !.op = "score_task",
                      !.error = "Exception"]
    /\ UNCHANGED <<jobs, applications, status_history, interviews, submits,
                   now, accepted, video_queue, analyzing, updates>>

\* calculate_ai_match_score lines 16-60: the rest of the task; ok = FALSE:
\* an exception was raised (no profile, adapter error) and swallowed
ScoreTaskSave(t, ok) ==
    /\ t \in scoring
    /\ scoring' = scoring \ {t}
    /\ IF ok
       THEN /\ applications' =
                   [applications EXCEPT ![t.app] =
                        ScoredApplication(
                            t.row,
                            calculate_match_score(CandidateData(t.row.user),
                                                  JobRequirements(t.row.job)))]
            /\ now' = now + 1
            /\ response' = [NoResponse EXCEPT !.op = "score_task"]
       ELSE /\ response' = [NoResponse EXCEPT !.op = "score_task", !.error = "Exception"]
            /\ UNCHANGED <<applications, now>>
    /\ UNCHANGED <<video_queue, analyzing, updates>>
    /\ UNCHANGED <<jobs, status_history, interviews, task_queue, submits,
                   accepted>>

\* ---------------------------------------------------------------- Spec
\* The status workflow of one application: candidate c1 has just applied to
\* job j1 of employer e1 (the state a successful submit leaves behind), and
\* the employers and candidates send status-update, bulk-update and
\* withdraw requests.
Init ==
    /\ jobs = [j \in JobIds |->
                  [employer |-> "e1", status |-> "open",
                   applications_count |-> 1]]
    /\ applications = <<NewApplication("c1", "j1")>>
    /\ status_history = <<>>
    /\ interviews = <<>>
    /\ task_queue = <<1>>
    /\ scoring = {}
    /\ submits = [r \in Slots |-> IdleSubmit]
    /\ now = 1
    /\ accepted = <<0>>
    /\ response = NoResponse
    /\ video_queue = <<>>
    /\ analyzing = {}
    /\ updates = [r \in Slots |-> IdleUpdate]

Next ==
    \/ \E u \in Employers, pk \in RequestIds, value \in RequestStatuses,
          comment \in Comments, reason \in Reasons :
           ApplicationStatusUpdate(u, pk, value, comment, reason)
    \/ \E u \in Users, pk \in RequestIds : ApplicationWithdraw(u, pk)
    \/ \E u \in Employers, application_ids \in SUBSET RequestIds,
          new_status \in RequestStatuses \cup {""}, comment \in Comments :
           BulkStatusUpdate(u, application_ids, new_status, comment)
    \/ \E u \in Candidates, op \in {"status_update", "bulk_update"} :
           PermissionDenied(u, op)

Spec == Init /\ [][Next]_vars

\* --------------------------------------------------------- SpecCascade
\* The same application with the interview views that cascade into its
\* status, next to the single status update and the withdrawal.
NextCascade ==
    \/ \E u \in Employers, pk \in RequestIds, value \in RequestStatuses,
          comment \in Comments, reason \in Reasons :
           ApplicationStatusUpdate(u, pk, value, comment, reason)
    \/ \E u \in Users, pk \in RequestIds : ApplicationWithdraw(u, pk)
    \/ \E u \in Employers, application_id \in RequestIds :
           InterviewCreate(u, application_id, 1)
    \/ \E u \in Employers, pk \in RequestInterviewIds :
           InterviewUpdate(u, pk, "completed")
    \/ \E u \in Candidates, op \in {"interview_create", "interview_update"} :
           PermissionDenied(u, op)

SpecCascade == Init /\ [][NextCascade]_vars

\* ------------------------------------------------------------ SpecBulk
\* Two employers with a job each: candidates c1 and c2 have applied to j1
\* of e1, c1 also to j2 of e2.  The employers send bulk and single status
\* updates that name their own, the other's and unknown applications, and
\* the users send withdrawals.
BulkStatuses == {"under_review", "accepted", ""}

\* the application_ids of the bulk requests: none, own applications, own
\* ones mixed with the other employer's (3) and an unknown id (4)
BulkIdSets == {{}, {2}, {3}, {1, 2}, {1, 3, 4}}

InitBulk ==
    /\ jobs = [j \in {"j1", "j2"} |->
                  [employer |-> IF j = "j1" THEN "e1" ELSE "e2",
                   status |-> "open",
                   applications_count |-> IF j = "j1" THEN 2 ELSE 1]]
    /\ applications = <<NewApplication("c1", "j1"), NewApplication("c2", "j1"),
                        NewApplication("c1", "j2")>>
    /\ status_history = <<>>
    /\ interviews = <<>>
    /\ task_queue = <<1, 2, 3>>
    /\ scoring = {}
    /\ submits = [r \in Slots |-> IdleSubmit]
    /\ now = 1
    /\ accepted = <<0, 0, 0>>
    /\ response = NoResponse
    /\ video_queue = <<>>
    /\ analyzing = {}
    /\ updates = [r \in Slots |-> IdleUpdate]

NextBulk ==
    \/ \E u \in Employers, application_ids \in BulkIdSets,
          new_status \in BulkStatuses, comment \in Comments :
           BulkStatusUpdate(u, application_ids, new_status, comment)
    \/ \E u \in Employers, pk \in AppIds, value \in {"under_review"},
          comment \in Comments, reason \in Reasons :
           ApplicationStatusUpdate(u, pk, value, comment, reason)
    \/ \E u \in Users, pk \in AppIds : ApplicationWithdraw(u, pk)
    \/ \E u \in Candidates, op \in {"status_update", "bulk_update"} :
           PermissionDenied(u, op)

SpecBulk == InitBulk /\ [][NextBulk]_vars

\* ------------------------------------------------------- SpecShortlist
\* The shortlist query over stored applications.  The table holds either
\* nothing or nine scored applications for j1, followed by up to
\* MaxUnranked applications of any job and score, so that a job has fewer
\* than, exactly and more than ShortlistLimit scored applications.
ShortlistScores == {NoScore, 5000, 7500, 10000}

\* the candidate of the i-th stored application (one application per
\* candidate and job)
Applicant(i) == "c" \o ToString(i)

\* an application whose scoring task has written the score (or has failed:
\* NoScore)
StoredApplication(i, job_id, score) ==
    [NewApplication(Applicant(i), job_id)
         EXCEPT !.ai_match_score = score,
                !.ai_analyzed_at = IF score = NoScore THEN NULL ELSE 1]

NineScored ==
    [i \in 1..9 |-> StoredApplication(i, "j1",
                                      IF i % 2 = 1 THEN 10000 ELSE 5000)]

InitShortlist ==
    /\ jobs = [j \in {"j1", "j2"} |->
                  [employer |-> IF j = "j1" THEN "e1" ELSE "e2",
                   status |-> "open", applications_count |-> 0]]
    /\ \E first \in {<<>>, NineScored}, n \in 0..MaxUnranked :
           \E rest \in [1..n -> {"j1", "j2"} \X ShortlistScores] :
               applications =
                   first \o [i \in 1..n |->
                                StoredApplication(Len(first) + i,
                                                  rest[i][1], rest[i][2])]
    /\ status_history = <<>>
    /\ interviews = <<>>
    /\ task_queue = <<>>
    /\ scoring = {}
    /\ submits = [r \in Slots |-> IdleSubmit]
    /\ now = 2
    /\ accepted = [a \in 1..Len(applications) |-> 0]
    /\ response = NoResponse
    /\ video_queue = <<>>
    /\ analyzing = {}
    /\ updates = [r \in Slots |-> IdleUpdate]

NextShortlist ==
    \/ \E u \in Employers, job_id \in {"j1", "j2", "j3"}, ties \in TieOrders :
           ShortlistCandidates(u, job_id, ties)
    \/ \E u \in Candidates : PermissionDenied(u, "shortlist")

SpecShortlist == InitShortlist /\ [][NextShortlist]_vars

\* ------------------------------------------------------- SpecInterview
\* The interviews of the same application: the employers create, update
\* and reschedule them, employers and candidates cancel them.  The
\* application starts as submitted, or as the owner's bulk update or the
\* candidate's withdrawal left it, with the history row that call wrote.
InterviewStartStatuses ==
    {"submitted", "interview_scheduled", "rejected", "withdrawn"}

InitInterview ==
    \E start \in InterviewStartStatuses :
        /\ jobs = [j \in {"j1"} |->
                      [employer |-> "e1", status |-> "open",
                       applications_count |-> 1]]
        /\ applications =
               <<[NewApplication("c1", "j1") EXCEPT !.status = start]>>
        /\ status_history =
               IF start = "submitted" THEN <<>>
               ELSE <<HistoryRow(1, "submitted", start,
                                 IF start = "withdrawn" THEN "c1" ELSE "e1",
                                 "")>>
        /\ interviews = <<>>
        /\ task_queue = <<1>>
        /\ scoring = {}
        /\ submits = [r \in Slots |-> IdleSubmit]
        /\ now = 1
        /\ accepted = <<IF start = "submitted" THEN 0 ELSE 1>>
        /\ response = NoResponse
        /\ video_queue = <<>>
        /\ analyzing = {}
        /\ updates = [r \in Slots |-> IdleUpdate]

NextInterview ==
    \/ \E u \in Employers, application_id \in RequestIds :
           InterviewCreate(u, application_id, 1)
    \/ \E u \in Employers, pk \in RequestInterviewIds,
          status \in INTERVIEW_STATUS_CHOICES :
           InterviewUpdate(u, pk, status)
    \/ \E u \in Users, pk \in RequestInterviewIds : InterviewCancel(u, pk)
    \/ \E u \in Employers, pk \in RequestInterviewIds, new_time \in {0, 2} :
           InterviewReschedule(u, pk, new_time)
    \/ \E u \in Candidates,
          op \in {"interview_create", "interview_update",
                   "interview_reschedule"} :
           PermissionDenied(u, op)

SpecInterview == InitInterview /\ [][NextInterview]_vars

\* ----------------------------------------------------------- SpecVideo
\* The interview views together with the video upload, the analysis task
\* a worker runs next to the requests, and the employer's bulk update that
\* moves the application back to interview_scheduled.
NextVideo ==
    \/ \E u \in Employers, application_id \in RequestIds :
           InterviewCreate(u, application_id, 1)
    \/ \E u \in Employers, pk \in RequestInterviewIds,
          status \in INTERVIEW_STATUS_CHOICES :
           InterviewUpdate(u, pk, status)
    \/ \E u \in Users, pk \in RequestInterviewIds : InterviewCancel(u, pk)
    \/ \E u \in Employers, pk \in RequestInterviewIds, new_time \in {0, 1} :
           InterviewReschedule(u, pk, new_time)
    \/ \E u \in Users, pk \in RequestInterviewIds : VideoUpload(u, pk)
    \/ \E i \in 1..Len(video_queue) : VideoTaskRead(i)
    \/ \E t \in analyzing, score \in VideoScores, ok \in BOOLEAN :
           VideoTaskSave(t, score, ok)
    \/ BulkStatusUpdate("e1", {1}, "interview_scheduled", "")

SpecVideo == Init /\ [][NextVideo]_vars

\* the jobs exist (JobCreateView accepts any status); either nobody has
\* applied, or c1 applied to j1 earlier and the employer rejected the
\* application
InitSubmit ==
    \E rejected_before \in BOOLEAN :
        /\ jobs \in [JobIds ->
                      {[employer |-> "e1", status |-> s,
                        applications_count |->
                            IF rejected_before THEN 1 ELSE 0] :
                       s \in JOB_STATUS_CHOICES}]
        /\ applications =
               IF rejected_before
               THEN <<[NewApplication("c1", "j1")
                           EXCEPT !.status = "rejected"]>>
               ELSE <<>>
        /\ status_history =
               IF rejected_before
               THEN <<HistoryRow(1, "submitted", "rejected", "e1", "")>>
               ELSE <<>>
        /\ accepted = IF rejected_before THEN <<1>> ELSE <<>>
        /\ interviews = <<>>
        /\ task_queue = <<>>
        /\ scoring = {}
        /\ submits = [r \in Slots |-> IdleSubmit]
        /\ now = 1
        /\ response = NoResponse
        /\ video_queue = <<>>
        /\ analyzing = {}
        /\ updates = [r \in Slots |-> IdleUpdate]

\* ---------------------------------------------------------- SpecSubmit
\* Concurrent submit requests against the applications table, with the
\* job and application operations that change what a submit depends on and
\* the scoring tasks the submits enqueue.
NextSubmit ==
    \/ \E u \in Employers, j \in JobIds : JobPublish(u, j)
    \/ \E u \in Employers, j \in JobIds : JobClose(u, j)
    \/ \E r \in Slots, u \in Candidates, j \in JobIds : SubmitValidate(r, u, j)
    \/ \E r \in Slots : SubmitSave(r)
    \/ \E r \in Slots : SubmitFinish(r)
    \/ \E u \in Candidates, pk \in RequestIds : ApplicationWithdraw(u, pk)
    \/ \E i \in 1..Len(task_queue) : ScoreTaskRead(i)
    \/ \E t \in scoring, ok \in BOOLEAN : ScoreTaskSave(t, ok)

SpecSubmit == InitSubmit /\ [][NextSubmit]_vars

\* the celery worker keeps consuming: a task that stays on the queue is
\* eventually taken and run
SpecSubmitFair ==
    SpecSubmit /\ WF_vars(\E i \in 1..Len(task_queue) : ScoreTaskRead(i))

\* ---------------------------------------------------------- SpecReject
\* Submit, status-update and withdraw requests that the views refuse, next
\* to the ones they accept: jobs in every status, statuses the transition
\* table refuses (accepted) or no choice field accepts (no_show), and
\* applications that are unknown, duplicate, rejected or withdrawn.
RejectStatuses == {"under_review", "accepted", "no_show"}

NextReject ==
    \/ \E r \in Slots, u \in Candidates, j \in JobIds : SubmitValidate(r, u, j)
    \/ \E r \in Slots : SubmitSave(r)
    \/ \E r \in Slots : SubmitFinish(r)
    \/ \E u \in Employers, pk \in RequestIds, value \in RejectStatuses,
          comment \in Comments, reason \in Reasons :
           ApplicationStatusUpdate(u, pk, value, comment, reason)
    \/ \E u \in Candidates, pk \in RequestIds : ApplicationWithdraw(u, pk)

SpecReject == InitSubmit /\ [][NextReject]_vars

\* ------------------------------------------------------------ SpecRace
\* Status-update requests of the owner that run at the same time on the
\* one application, next to the scoring task its submit enqueued.
RaceStatuses == {"under_review", "rejected", "accepted"}

NextRace ==
    \/ \E r \in Slots, u \in Employers, pk \in AppIds,
          value \in RaceStatuses, comment \in Comments, reason \in Reasons :
           StatusUpdateRead(r, u, pk, value, comment, reason)
    \/ \E r \in Slots : StatusUpdateSave(r)
    \/ \E r \in Slots : StatusUpdateLog(r)
    \/ \E i \in 1..Len(task_queue) : ScoreTaskRead(i)
    \/ \E t \in scoring, ok \in BOOLEAN : ScoreTaskSave(t, ok)

SpecRace == Init /\ [][NextRace]_vars

\* =================================================================== claims
TerminalStatuses == {"accepted", "rejected", "withdrawn"}

HistoryOf(a) ==
    {i \in 1..Len(status_history) : status_history[i].application = a}

AllSubmitsFinished == \A r \in Slots : submits[r].pc = "idle"

\* C1: for every stored status S and every requested status T that is one
\* of the nine statuses or is listed for S in the transition table, the
\* status update of an employer on an application of the employer's job
\* succeeds iff T is in the table row of S or T = S, and every other pair is
\* rejected with the invalid-transition error.
C1_StatusUpdateFollowsTable ==
    [][\A u \in Employers, pk \in AppIds, value \in RequestStatuses,
          comment \in Comments, reason \in Reasons :
           (/\ VisibleToEmployer(pk, u)
            /\ applications[pk].status \in STATUS_CHOICES
            /\ value \in STATUS_CHOICES
                         \cup valid_transitions(applications[pk].status)
            /\ ApplicationStatusUpdate(u, pk, value, comment, reason))
           => LET S == applications[pk].status
                  allowed == value \in valid_transitions(S) \/ value = S
              IN  /\ response'.code = 200 <=> allowed
                  /\ ~allowed => response'.error = "InvalidTransition"]_vars

\* C2: once the status of an application is accepted, rejected or
\* withdrawn, no operation changes it to a different value.
C2_TerminalAbsorbing ==
    [][\A a \in AppIds :
           applications[a].status \in TerminalStatuses
           => applications'[a].status = applications[a].status]_vars

\* C3: in every reachable state the number of status-history rows of an
\* application equals the number of accepted status-update (single or bulk)
\* and withdraw operations performed on it.
C3_HistoryCountsAcceptedOps ==
    \A a \in AppIds : Cardinality(HistoryOf(a)) = accepted[a]

\* C3 witness: a status update and then a withdrawal were accepted.
C3_Witness ==
    /\ response.op = "withdraw" /\ response.code = 200
    /\ accepted = <<2>>
    /\ Len(status_history) = 2
    /\ status_history[1].comment # "Application withdrawn by candidate"

\* C4: every step that changes the status of an application appends exactly
\* one history row for it, with the status before and after the change.
C4_StatusChangeLogged ==
    [][\A a \in AppIds :
           applications'[a].status # applications[a].status
           => /\ Len(status_history') = Len(status_history) + 1
              /\ SubSeq(status_history', 1, Len(status_history))
                     = status_history
              /\ LET row == status_history'[Len(status_history')]
                 IN  /\ row.application = a
                     /\ row.old_status = applications[a].status
                     /\ row.new_status = applications'[a].status]_vars

\* C5 (as claimed): a submit for (job, candidate) when an application of
\* the pair exists always fails with the duplicate-application error and
\* changes nothing.
C5_DuplicateAlwaysDuplicateError ==
    [][\A r \in Slots, u \in Candidates, j \in JobIds :
           (ApplicationExists(u, j) /\ SubmitValidate(r, u, j))
           => /\ response'.code = 400
              /\ response'.error = "DuplicateApplication"
              /\ UNCHANGED <<applications, jobs, task_queue, submits>>]_vars

\* C5 (amended): a submit for (job, candidate) when an application of the
\* pair exists always fails, whatever the status of that application, with
\* the duplicate-application error if the job is open and with the
\* job-not-open error otherwise; no application is created, the counter is
\* not incremented and no task is enqueued.
C5_DuplicateSubmitFails ==
    [][\A r \in Slots, u \in Candidates, j \in JobIds :
           (ApplicationExists(u, j) /\ SubmitValidate(r, u, j))
           => /\ response'.code = 400
              /\ response'.error = IF jobs[j].status = "open"
                                   THEN "DuplicateApplication"
                                   ELSE "JobNotOpen"
              /\ UNCHANGED <<applications, jobs, task_queue, submits>>]_vars

\* C5 witness: the only application was withdrawn and the submit that
\* followed was refused as a duplicate.
C5_Witness ==
    /\ response.op = "submit" /\ response.error = "DuplicateApplication"
    /\ Len(applications) = 1
    /\ applications[1].status = "withdrawn"

\* C6: in every reachable state, under any interleaving of submit requests,
\* there is at most one application per (job, candidate).
C6_UniquePerJobAndCandidate ==
    \A a, b \in AppIds :
        (applications[a].job = applications[b].job
         /\ applications[a].user = applications[b].user) => a = b

\* C6 witness: two requests passed the pre-check and the later INSERT was
\* rejected by the constraint.
C6_Witness ==
    /\ response.op = "submit" /\ response.error = "IntegrityError"
    /\ Len(applications) >= 1

\* C7: the withdrawal of the candidate's own application fails, leaving
\* status and history unchanged, exactly when the status is accepted,
\* rejected or withdrawn; otherwise it succeeds, sets the status to
\* withdrawn and appends one history row (old status -> withdrawn) with the
\* system comment.
C7_WithdrawOutcome ==
    [][\A u \in Users, pk \in AppIds :
           (OwnedByCandidate(pk, u) /\ ApplicationWithdraw(u, pk))
           => LET S == applications[pk].status
              IN  IF S \in TerminalStatuses
                  THEN /\ response'.code = 400
                       /\ response'.error = "CannotWithdraw"
                       /\ UNCHANGED <<applications, status_history>>
                  ELSE /\ response'.code = 200
                       /\ applications' =
                              [applications EXCEPT ![pk].status = "withdrawn"]
                       /\ status_history' =
                              Append(status_history,
                                     [application |-> pk, old_status |-> S,
                                      new_status |-> "withdrawn",
                                      changed_by |-> u,
                                      comment |->
                                        "Application withdrawn by candidate"])
      ]_vars

\* C7 witness: an application in offer_sent was withdrawn.
C7_Witness ==
    /\ response.op = "withdraw" /\ response.code = 200
    /\ applications[1].status = "withdrawn"
    /\ Len(status_history) > 0
    /\ status_history[Len(status_history)].old_status = "offer_sent"
    /\ status_history[Len(status_history)].new_status = "withdrawn"

\* C8: the status of an application changes from a non-withdrawn value to
\* withdrawn only by the withdraw operation of its candidate.
C8_WithdrawnOnlyByCandidate ==
    [][\A a \in AppIds :
           (applications[a].status # "withdrawn"
            /\ applications'[a].status = "withdrawn")
           => \E u \in Users :
                  OwnedByCandidate(a, u) /\ ApplicationWithdraw(u, a)]_vars

\* C9: no application is created for a job whose status is not open at the
\* moment the application is persisted.
C9_NoApplicationForClosedJob ==
    [][Len(applications') > Len(applications)
       => jobs[applications'[Len(applications')].job].status = "open"]_vars

\* C10: once all submit requests have finished, applications_count of a job
\* equals the number of applications that exist for it.
C10_CounterMatchesApplications ==
    AllSubmitsFinished
    => \A j \in JobIds :
           jobs[j].applications_count = Cardinality(AppsOfJob(j))

\* the employer of the job an application belongs to
EmployerOf(a) == jobs[applications[a].job].employer

\* C11: a bulk status update changes the status of an application from S to
\* the requested T only if T is in the transition table of S or T = S; a
\* selected application for which the transition is not allowed keeps its
\* status, gets no history row and is not counted.
C11_BulkFollowsTable ==
    [][\A u \in Employers, application_ids \in BulkIdSets,
          new_status \in BulkStatuses, comment \in Comments :
           BulkStatusUpdate(u, application_ids, new_status, comment)
           => LET allowed(a) ==
                      \/ new_status
                             \in valid_transitions(applications[a].status)
                      \/ new_status = applications[a].status
                  selected == {a \in AppIds \cap application_ids :
                                   EmployerOf(a) = u}
              IN  /\ \A a \in selected :
                         ~allowed(a)
                         => /\ applications'[a] = applications[a]
                            /\ HistoryOf(a)' = HistoryOf(a)
                  /\ response'.count
                         <= Cardinality({a \in selected : allowed(a)})]_vars

\* C12: a bulk status update with ids and a status returns 200 and a count
\* equal to the number of applications it updated; each of them received
\* exactly one history row and the requested status, every other
\* application is as before, and ids that name no application of the
\* requester's jobs are skipped and not counted.
C12_BulkCountsUpdated ==
    [][\A u \in Employers, application_ids \in BulkIdSets,
          new_status \in BulkStatuses, comment \in Comments :
           (/\ application_ids # {} /\ new_status # ""
            /\ BulkStatusUpdate(u, application_ids, new_status, comment))
           => LET updated ==
                      {a \in AppIds :
                           Cardinality(HistoryOf(a)')
                               = Cardinality(HistoryOf(a)) + 1}
              IN  /\ response'.code = 200
                  /\ response'.count = Cardinality(updated)
                  /\ Len(status_history')
                         = Len(status_history) + Cardinality(updated)
                  /\ SubSeq(status_history', 1, Len(status_history))
                         = status_history
                  /\ \A a \in updated :
                         /\ a \in application_ids /\ EmployerOf(a) = u
                         /\ applications'[a].status = new_status
                  /\ \A a \in AppIds \ updated :
                         applications'[a] = applications[a]]_vars

\* C12 witness: a bulk update of e1 changed both applications of j1 and
\* left the application of e2's job alone.
C12_Witness ==
    /\ response.op = "bulk_update" /\ response.code = 200
    /\ response.count = 2
    /\ Len(status_history) = 2
    /\ applications[1].status = "accepted"
    /\ applications[2].status = "accepted"
    /\ applications[3].status = "submitted"

\* C13: a status update or bulk status update requested by an employer who
\* does not own the job of an application, and a withdrawal requested by a
\* user who is not its candidate, leave the application's status, fields
\* and history unchanged; the single operations answer not found.
C13_OnlyOwnersChange ==
    [][/\ \A u \in Employers, pk \in AppIds, value \in {"under_review"},
             comment \in Comments, reason \in Reasons :
              (/\ EmployerOf(pk) # u
               /\ ApplicationStatusUpdate(u, pk, value, comment, reason))
              => /\ response'.code = 404
                 /\ UNCHANGED <<applications, status_history>>
       /\ \A u \in Employers, application_ids \in BulkIdSets,
             new_status \in BulkStatuses, comment \in Comments :
              BulkStatusUpdate(u, application_ids, new_status, comment)
              => /\ SubSeq(status_history', 1, Len(status_history))
                        = status_history
                 /\ \A a \in AppIds :
                        EmployerOf(a) # u
                        => /\ applications'[a] = applications[a]
                           /\ HistoryOf(a)' = HistoryOf(a)
       /\ \A u \in Users, pk \in AppIds :
              (applications[pk].user # u /\ ApplicationWithdraw(u, pk))
              => /\ response'.code = 404
                 /\ UNCHANGED <<applications, status_history>>]_vars

\* C13 witness: after the owner moved an application, the status update of
\* another employer on an existing application was answered not found.
C13_Witness ==
    /\ response.op = "status_update" /\ response.code = 404
    /\ \E a \in AppIds : applications[a].status = "under_review"

\* the scored applications of a job
ScoredOfJob(j) ==
    {a \in AppsOfJob(j) : applications[a].ai_match_score # NoScore}

\* C14: for every job and every set of stored applications the shortlist
\* query returns at most 10 entries, all of that job, none with a null
\* ai_match_score, in non-increasing order of ai_match_score, and no
\* omitted scored application of the job has a strictly higher score than
\* a returned one.
C14_ShortlistTopTen ==
    \A j \in DOMAIN jobs, ties \in TieOrders :
        LET result == ShortlistQuery(j, ties)
            returned == {result[i] : i \in 1..Len(result)}
        IN  /\ Len(result) <= 10
            /\ \A a \in returned :
                   /\ a \in AppIds
                   /\ applications[a].job = j
                   /\ applications[a].ai_match_score # NoScore
            /\ \A i \in 1..(Len(result) - 1) :
                   applications[result[i]].ai_match_score
                       >= applications[result[i + 1]].ai_match_score
            /\ \A a \in ScoredOfJob(j) \ returned, b \in returned :
                   applications[a].ai_match_score
                       <= applications[b].ai_match_score

\* C14 witness: a job with more than ten scored applications, next to
\* unscored ones, was shortlisted and ten entries were returned.
C14_Witness ==
    /\ response.op = "shortlist" /\ response.count = 10
    /\ Cardinality(ScoredOfJob("j1")) > 10
    /\ \E a \in AppIds : applications[a].ai_match_score = NoScore

\* C15: for every interview completed_at is null until the first update
\* that leaves the interview in status completed, is set by that update,
\* and is never changed afterwards by any operation.
C15_CompletedAtSetOnce ==
    [][\A i \in InterviewIds :
           /\ interviews[i].completed_at # NULL
              => interviews'[i].completed_at = interviews[i].completed_at
           /\ (interviews[i].completed_at = NULL
               /\ interviews'[i].completed_at # NULL)
              => /\ response'.op = "interview_update"
                 /\ interviews'[i].status = "completed"
           /\ interviews'[i].status = "completed"
              => interviews'[i].completed_at # NULL]_vars

\* C16: an interview update that sets the status to completed changes the
\* status of the parent application to interviewed when, and only when,
\* that status is interview_scheduled; otherwise the application is left
\* unchanged.
C16_CompletionCascades ==
    [][\A u \in Employers, pk \in InterviewIds :
           (/\ InterviewOfEmployer(pk, u)
            /\ InterviewUpdate(u, pk, "completed"))
           => LET a == interviews[pk].application
              IN  IF applications[a].status = "interview_scheduled"
                  THEN applications' =
                           [applications EXCEPT ![a].status = "interviewed"]
                  ELSE applications' = applications]_vars

\* C17: an interview creation requested by an employer who does not own the
\* job of the referenced application fails; no interview is created and the
\* status of the application is unchanged.
C17_ForeignEmployerCannotSchedule ==
    [][\A u \in Employers, application_id \in AppIds :
           (/\ EmployerOf(application_id) # u
            /\ InterviewCreate(u, application_id, 1))
           => /\ response'.code = 400
              /\ UNCHANGED <<interviews, applications>>]_vars

\* C17 witness: the creation was refused for want of permission.
C17_Witness ==
    /\ response.op = "interview_create"
    /\ response.error = "NoPermission"
    /\ interviews = <<>>

\* C18: after every successful interview creation the new interview has
\* status scheduled and the parent application has status
\* interview_scheduled, whatever its status was before; an application that
\* already was interview_scheduled is not written.
C18_CreateSchedulesApplication ==
    [][\A u \in Employers, application_id \in RequestIds :
           (/\ InterviewCreate(u, application_id, 1)
            /\ response'.code = 201)
           => /\ interviews' =
                     Append(interviews, interviews'[Len(interviews')])
              /\ interviews'[Len(interviews')].application = application_id
              /\ interviews'[Len(interviews')].status = "scheduled"
              /\ applications' =
                     [applications EXCEPT
                          ![application_id].status = "interview_scheduled"]
              /\ applications[application_id].status = "interview_scheduled"
                 => applications' = applications]_vars

\* C18 witness: an interview was created for a withdrawn application.
C18_Witness ==
    /\ response.op = "interview_create" /\ response.code = 201
    /\ Len(interviews) = 1
    /\ interviews[1].status = "scheduled"
    /\ applications[1].status = "interview_scheduled"
    /\ Len(status_history) > 0
    /\ status_history[Len(status_history)].new_status = "withdrawn"

\* C19: cancelling an interview fails, leaving the interview unchanged,
\* exactly when its status is completed or cancelled; from scheduled,
\* in_progress, rescheduled and no_show it sets the status to cancelled;
\* in every case the parent application is unchanged.
C19_CancelOutcome ==
    [][\A u \in Users, pk \in InterviewIds :
           (InterviewVisibleTo(pk, u) /\ InterviewCancel(u, pk))
           => /\ IF interviews[pk].status \in {"completed", "cancelled"}
                 THEN /\ response'.code = 400
                      /\ interviews' = interviews
                 ELSE /\ response'.code = 200
                      /\ interviews' =
                             [interviews EXCEPT ![pk].status = "cancelled"]
              /\ applications' = applications]_vars

\* C19 witness: a rescheduled interview was cancelled.
C19_Witness ==
    /\ response.op = "interview_cancel" /\ response.code = 200
    /\ Len(interviews) = 1
    /\ interviews[1].status = "cancelled"
    /\ interviews[1].scheduled_at = 2

C21_FailedTaskWritesNothing ==
    [][\A t \in scoring :
           ScoreTaskSave(t, FALSE)
           => /\ applications' = applications
              /\ status_history' = status_history
              /\ task_queue' = task_queue
              /\ scoring' = scoring \ {t}
              /\ response'.code = 0]_vars

\* C21 witness: a task run has failed, nothing is queued or running, and
\* the application is still unscored.
C21_Witness ==
    /\ response.op = "score_task" /\ response.error = "Exception"
    /\ task_queue = <<>> /\ scoring = {}
    /\ \E a \in AppIds : applications[a].ai_match_score = NoScore

\* C22: when the application was withdrawn after its scoring task was
\* enqueued and before the task finishes, also between the task's read and
\* its save, the task's save stores the computed score and leaves the
\* status withdrawn and every other non-AI field as it is.
C22_TaskKeepsWithdrawn ==
    [][\A t \in scoring :
           (/\ ScoreTaskSave(t, TRUE)
            /\ applications[t.app].status = "withdrawn")
           => applications'[t.app] =
                  ScoredApplication(
                      applications[t.app],
                      calculate_match_score(CandidateData(t.row.user),
                                            JobRequirements(t.row.job)))]_vars

\* C26: reviewed_at is stamped the first time the status of an application
\* becomes under_review and only then: it is null while the application
\* has never been under_review, non-null whenever the application is or
\* has been under_review, and never changed once set.
C26_ReviewedAtStampedOnce ==
    [][\A a \in AppIds :
           /\ applications[a].reviewed_at # NULL
              => applications'[a].reviewed_at = applications[a].reviewed_at
           /\ (applications[a].reviewed_at = NULL
               /\ applications'[a].reviewed_at # NULL)
              => applications'[a].status = "under_review"
           /\ applications'[a].status = "under_review"
              => applications'[a].reviewed_at # NULL]_vars

\* C27: when the interview was cancelled or updated after its
\* video-analysis task was enqueued and before the task finishes, also
\* between the task's read and its save, the task's save stores the
\* analysis result (a score in [0,100], ai_analyzed_at) and leaves status,
\* scheduled_at, completed_at and the other fields as the cancel or update
\* wrote them.
C27_TaskKeepsInterviewFields ==
    [][\A t \in analyzing, score \in VideoScores :
           VideoTaskSave(t, score, TRUE)
           => /\ score \in 0..10000
              /\ interviews'[t.interview] =
                     AnalyzedInterview(interviews[t.interview], score)]_vars

\* C28: in every reachable state the stored status of every application is
\* one of the nine declared statuses, whatever status string a request
\* carries.
C28_StatusIsDeclared ==
    \A a \in AppIds : applications[a].status \in STATUS_CHOICES

\* the status-history rows of application a, in insertion order
HistoryRowsOf(a) ==
    SelectSeq(status_history, LAMBDA row : row.application = a)

\* C29: the status history of an application is a continuous chain: the
\* first entry's old_status is submitted, each later entry's old_status is
\* the previous entry's new_status, the last entry's new_status is the
\* current status; an application without entries has status submitted.
C29_HistoryIsChain ==
    \A a \in AppIds :
        LET h == HistoryRowsOf(a)
        IN  IF h = <<>> THEN applications[a].status = "submitted"
            ELSE /\ h[1].old_status = "submitted"
                 /\ \A i \in 2..Len(h) : h[i].old_status = h[i - 1].new_status
                 /\ h[Len(h)].new_status = applications[a].status

\* C23: for concurrent status-update requests on the same application that
\* both pass validation, every save leaves the status it carries, so the
\* final status is the one of the later save; every request appends one
\* history entry with its own new status, so that two requests append
\* exactly two entries.
C23_LastWriteWins ==
    /\ [][\A r \in Slots :
              /\ StatusUpdateSave(r)
                 => /\ applications'[updates[r].app].status = updates[r].value
                    /\ status_history' = status_history
              /\ StatusUpdateLog(r)
                 => /\ status_history' =
                           Append(status_history,
                                  status_history'[Len(status_history')])
                    /\ status_history'[Len(status_history')].application
                           = updates[r].app
                    /\ status_history'[Len(status_history')].new_status
                           = updates[r].value
                    /\ status_history'[Len(status_history')].changed_by
                           = updates[r].user
                    /\ applications' = applications]_vars
    /\ [](UpdatesInFlight = {}
          => \A a \in AppIds : Len(HistoryRowsOf(a)) = accepted[a])

\* C23 witness: two requests read the submitted application, both passed
\* validation with different statuses, and both have finished; the stored
\* status is the one of the request whose history entry came first.
C23_Witness ==
    /\ UpdatesInFlight = {}
    /\ Len(status_history) = 2
    /\ status_history[1].old_status = "submitted"
    /\ status_history[2].old_status = "submitted"
    /\ status_history[1].new_status # status_history[2].new_status
    /\ applications[1].status = status_history[1].new_status
    /\ accepted[1] = 2

\* C30: once a scoring task has written a non-null ai_match_score for an
\* application, no later step - in any interleaving of the requests with
\* the task - resets ai_match_score, ai_analysis or ai_analyzed_at to their
\* unscored values.
C30_ScoreNeverLost ==
    [][\A a \in AppIds :
           applications[a].ai_match_score # NoScore
           => /\ applications'[a].ai_match_score # NoScore
              /\ applications'[a].ai_analysis # EmptyAnalysis
              /\ applications'[a].ai_analyzed_at # NULL]_vars

\* the errors with which a view refuses a request for a business rule or
\* for its input
BusinessErrors ==
    {"DuplicateApplication", "JobNotOpen", "InvalidTransition",
     "CannotWithdraw", "InvalidChoice"}

\* C24: whenever a submit, status-update or withdraw request is rejected
\* with a business-rule or validation error, the persistent state after
\* the request equals the state before it: no application or history row
\* is created, no field of an application changes, applications_count is
\* unchanged and no task is enqueued.
C24_RejectedChangesNothing ==
    [][(/\ response'.op \in {"submit", "status_update", "withdraw"}
        /\ response'.code = 400
        /\ response'.error \in BusinessErrors)
       => UNCHANGED <<jobs, applications, status_history, interviews,
                      task_queue>>]_vars

\* C24 witness: a status update was refused for its transition after a
\* submit had stored the application.
C24_Witness ==
    /\ response.op = "status_update" /\ response.code = 400
    /\ response.error = "InvalidTransition"
    /\ Len(applications) = 1
    /\ applications[1].status = "submitted"
    /\ status_history = <<>>
    /\ jobs["j1"].applications_count = 1

\* calculate_ai_match_score.delay(a) was called and no worker has taken
\* the task yet
Queued(a) == \E i \in 1..Len(task_queue) : task_queue[i] = a

\* C25: every successful submit creates the application in status
\* submitted with a null ai_match_score and enqueues exactly one scoring
\* task for it (tasks are enqueued by nothing else); the submit returns
\* while the task is still on the queue, and under fair task execution
\* the task is eventually attempted.
C25_SubmitEnqueuesOneTask ==
    /\ [][\A r \in Slots :
              /\ (SubmitSave(r) /\ submits'[r].pc = "saved")
                 => /\ applications' =
                           Append(applications,
                                  applications'[Len(applications')])
                    /\ applications'[Len(applications')].status = "submitted"
                    /\ applications'[Len(applications')].ai_match_score
                           = NoScore
                    /\ submits'[r].app = Len(applications')
              /\ SubmitFinish(r)
                 => /\ response'.code = 201
                    /\ ~Queued(submits[r].app)
                    /\ \A t \in scoring : t.app # submits[r].app
                    /\ applications[submits[r].app].ai_analyzed_at = NULL
                    /\ task_queue' = Append(task_queue, submits[r].app)]_vars
    /\ [][(\A r \in Slots : ~SubmitFinish(r))
          => \A a \in 1..MaxApps : Queued(a)' => Queued(a)]_vars
    /\ \A a \in 1..MaxApps : Queued(a) ~> ~Queued(a)

\* C25 witness: a submit has returned 201 and the task of the submitted,
\* unscored application is on the queue.
C25_Witness ==
    /\ response.op = "submit" /\ response.code = 201
    /\ \E a \in AppIds :
           /\ Queued(a)
           /\ applications[a].status = "submitted"
           /\ applications[a].ai_match_score = NoScore

====
